---- MODULE Spec2Model ----
(***************************************************************************)
(* Model of freeagent.py: the token-renewing request wrapper               *)
(* (with_authorization / YahooApi.make_request), YahooApi.add_player,      *)
(* the scheduler loop add_until_done and the campaign loop of __main__.    *)
(*                                                                         *)
(* Time of day is counted in ticks, TicksPerSec ticks to the second, so    *)
(* that datetime.now() can fall between two whole seconds as it does in    *)
(* the program.  Sleeps are exact and every other operation takes no time. *)
(*                                                                         *)
(* The remote service is the environment: every answer to a request, to a  *)
(* refresh request and to an ownership poll is chosen freely from the      *)
(* input sets below.  add_until_done takes its caller as an argument and   *)
(* polls through caller.player_id; class YahooApi defines no such method,  *)
(* so hasPlayerId tells whether the object handed in provides one.         *)
(***************************************************************************)
EXTENDS Integers, Sequences, FiniteSets, TLC

\* ---------------------------------------------------------------- bounds
TicksPerSec == 2          \* clock resolution of the model
NumCandidates == 2        \* length of player_ids_to_add
MaxPolls == 2             \* ownership polls modelled per candidate
MaxCalls == 3             \* direct API calls modelled in SpecApi
MaxPlayers == 2           \* player entries in one ownership document

\* ------------------------------------------------------ program constants
ThreeAmSecs == 10770      \* 02:59:30 as seconds after midnight
SevenAmSecs == 25200      \* 07:00:00 as seconds after midnight
DaySecs == 86400          \* datetime.timedelta(days=1)
WaiversPause == 10        \* time.sleep(10)
FailedClaimPause == 1     \* time.sleep(1)
RenewOkStatus == 200      \* resp.status_code != 200
StatusLow == 200          \* resp.status_code < 200
StatusHigh == 300         \* resp.status_code >= 300

DayTicks == DaySecs * TicksPerSec
three_am == ThreeAmSecs * TicksPerSec
seven_am == SevenAmSecs * TicksPerSec

\* ------------------------------------------------------------ input sets
Absent == "absent"        \* a key the decoded record does not hold
None == "None"
team_id == "t1"
Teams == {"t1", "t2"}
adds == [i \in 1..NumCandidates |-> i]

\* decoded ownership sub-records: a team record carries owner_team_key,
\* the others may or may not
OwnershipRecords ==
       [ownership_type : {"team"}, owner_team_key : Teams]
  \cup [ownership_type : {"waivers"}, owner_team_key : Teams \cup {Absent}]
  \cup [ownership_type : {"freeagents", "pending", Absent}, owner_team_key : {Absent}]

NoRecord == [ownership_type |-> "none", owner_team_key |-> "none"]

\* clock readings at which the process is started (seconds, half seconds)
StartSecs == {0, 10769, 10770, 25199, 25200}
StartTimes == {s * TicksPerSec : s \in StartSecs} \cup {10769 * TicksPerSec + 1}

\* answers of the fantasy API to a request: an HTTP response (status and
\* whether the body holds 'token_expired') or an exception of requests
Statuses == {199, 200, 299, 300, 401}
Responses == [kind : {"http"}, status : Statuses, expired : BOOLEAN]
        \cup [kind : {"exception"}, status : {0}, expired : BOOLEAN]

NoResponse == [kind |-> "none", status |-> 0, expired |-> FALSE]

\* the player entries xmltodict can hand to player_info: one entry by itself
\* (isList FALSE, the entry is players[1]) or a list of entries
PlayerEntries == [player_key : {"k1", "k2"}, full : {"n1"}]
PlayerObjs ==
       [isList : {FALSE}, players : {<<e>> : e \in PlayerEntries}]
  \cup [isList : {TRUE},
        players : UNION {[1..n -> PlayerEntries] : n \in 1..MaxPlayers}]
NoDoc == [isList |-> FALSE, players |-> <<>>]

\* answers of the token endpoint
RenewStatuses == {200, 201, 400}
NewTokens == {1, 2}
RefreshTokens == {0, 1}
RenewResponses ==
       [kind : {"http"}, status : RenewStatuses, access_token : NewTokens,
        refresh_token : RefreshTokens]
  \cup [kind : {"exception"}, status : {0}, access_token : {0},
        refresh_token : {0}]

VARIABLES
  mode,          \* "main": __main__ is running; "api": methods called directly
  hasPlayerId,   \* the caller object handed to add_until_done has player_id
  drop,          \* player_id_to_drop
  pc,            \* position of the program
  idx,           \* index in adds of the candidate in flight
  status,        \* status[i]: what add_until_done returned for candidate i
  now,           \* local time of day, in ticks
  t0,            \* the reading of datetime.now() at the last window check
  secs_until_3,  \* the wait computed at the last window check
  rec,           \* ownership record of the poll of this cycle
  event,         \* what the last step did
  polls,         \* polls[i]: ownership polls issued for candidate i
  claims,        \* claims[i]: add_player calls made for candidate i
  claimsOk,      \* claimsOk[i]: add_player calls that returned
  access,        \* self.access
  refresh,       \* self.refresh
  tokenFile,     \* contents of token.private
  isPost,        \* argument of the make_request call in progress
  attempt,       \* 1: first invocation of func, 2: the one after renewal
  nReq,          \* requests issued by the logical call
  nRenew,        \* renewals invoked by the logical call
  firstErr,      \* text of the first invocation's exception: "none", "expired", "other"
  lastBearer,    \* access token sent with the last request
  lastResp,      \* the answer to the last request of this cycle or call
  doc,           \* the player entries in the body of the last read's answer
  yielded,       \* what the last player_info call yielded
  payload,       \* transaction type of the last claim payload
  result,        \* outcome of the last logical call
  err,           \* exception that left the program
  calls          \* direct API calls made (SpecApi)

vars == <<mode, hasPlayerId, drop, pc, idx, status, now, t0, secs_until_3, rec,
          event, polls, claims, claimsOk, access, refresh, tokenFile, isPost,
          attempt, nReq, nRenew, firstErr, lastBearer, lastResp, doc,
          yielded, payload, result, err, calls>>

schedVars == <<idx, status, now, t0, secs_until_3, rec, polls, claims, claimsOk>>
tokenVars == <<access, refresh, tokenFile>>
callVars == <<isPost, attempt, nReq, nRenew, firstErr, lastBearer, lastResp,
              doc, yielded, result>>
confVars == <<mode, hasPlayerId, drop>>

\* ------------------------------------------------------- pure helpers

\* now + secs seconds, as a time of day (time.sleep taken as exact)
After(t, secs) == (t + secs * TicksPerSec) % DayTicks

\* Seconds as it would be with the whole delta counted (total_seconds)
Seconds_Total(d) == d \div TicksPerSec

\* timedelta.seconds of a delta of d ticks, 0 <= d <= one day: the days are
\* split off and the fraction of a second is dropped
Seconds(d) == (d % DayTicks) \div TicksPerSec

\* the wait computed at the top of the loop for a clock reading t
SecsUntil3(t) ==
  IF ~(three_am < t /\ t < seven_am)
    THEN IF t < three_am
           THEN Seconds(three_am - t)
           ELSE Seconds((three_am + DayTicks) - t)
    ELSE 0

\* Branch as it would be if every team-owned record counted as ours
Branch_TeamAlwaysOwned(r) ==
  IF r.ownership_type = Absent THEN "KeyError"
  ELSE IF r.ownership_type = "waivers" THEN "waivers"
  ELSE IF r.ownership_type = "team"
    THEN IF r.owner_team_key = Absent THEN "KeyError" ELSE "owned"
  ELSE "freeagents"

\* Branch as it would be if the owner were looked at before the type
Branch_OwnerFirst(r) ==
  IF r.ownership_type = Absent THEN "KeyError"
  ELSE IF r.owner_team_key = team_id THEN "owned"
  ELSE IF r.ownership_type = "waivers" THEN "waivers"
  ELSE IF r.ownership_type = "team"
    THEN IF r.owner_team_key = Absent THEN "KeyError" ELSE "taken"
  ELSE "freeagents"

\* the branch the scheduler takes on a decoded record; looking up a key the
\* record does not hold raises KeyError
Branch(r) ==
  IF r.ownership_type = Absent THEN "KeyError"
  ELSE IF r.ownership_type = "waivers" THEN "waivers"
  ELSE IF r.ownership_type = "team"
    THEN IF r.owner_team_key = Absent THEN "KeyError"
         ELSE IF r.owner_team_key = team_id THEN "owned" ELSE "taken"
  ELSE "freeagents"

\* 'token_expired' in str(e)
TokenExpired(e) == e.expired

\* make_request's test of the status code
IsFailure(st) == st < StatusLow \/ st >= StatusHigh

\* payload = data_add if remove_player_id is None else data_replace
Payload(remove_player_id) ==
  IF remove_player_id = None THEN "add" ELSE "add/drop"

Bump(f, i) == [f EXCEPT ![i] = @ + 1]

\* ------------------------------------------------------------ initial state

InitCommon ==
  /\ idx = 1
  /\ status = [i \in 1..NumCandidates |-> "none"]
  /\ t0 = now
  /\ secs_until_3 = 0
  /\ rec = NoRecord
  /\ event = "start"
  /\ polls = [i \in 1..NumCandidates |-> 0]
  /\ claims = [i \in 1..NumCandidates |-> 0]
  /\ claimsOk = [i \in 1..NumCandidates |-> 0]
  /\ access = 0
  /\ refresh = 0
  /\ tokenFile = [access_token |-> 0, refresh_token |-> 0]
  /\ isPost = FALSE
  /\ attempt = 0
  /\ nReq = 0
  /\ nRenew = 0
  /\ firstErr = "none"
  /\ lastBearer = 0
  /\ lastResp = NoResponse
  /\ doc = NoDoc
  /\ yielded = <<>>
  /\ payload = "none"
  /\ result = "none"
  /\ err = "none"
  /\ calls = 0

\* __main__ has read its configuration, built YahooApi() and enters the loop
\* over adds with the first candidate
Init ==
  /\ mode = "main"
  /\ hasPlayerId \in BOOLEAN
  /\ drop \in {None, "p9"}
  /\ now \in StartTimes
  /\ pc = "window"
  /\ InitCommon

\* add_until_done entered at any reading of the clock
InitWait ==
  /\ mode = "main"
  /\ hasPlayerId = TRUE
  /\ drop = None
  /\ now \in 0..(DayTicks - 1)
  /\ pc = "window"
  /\ InitCommon

\* a YahooApi object has been built and its methods are called directly
InitApi ==
  /\ mode = "api"
  /\ hasPlayerId = FALSE
  /\ drop \in {None, "p9"}
  /\ now = 0
  /\ pc = "idle"
  /\ InitCommon

\* ------------------------------------------- how a logical call finishes

\* ClaimReturned as it would be if a successful claim were itself the result
ClaimReturned_ReturnsOwned ==
  /\ claimsOk' = Bump(claimsOk, idx)
  /\ status' = [status EXCEPT ![idx] = "owned"]
  /\ pc' = "returned"
  /\ event' = "claim_ok"
  /\ UNCHANGED <<idx, now, t0, secs_until_3, rec, polls, claims, err>>

\* ClaimReturned as it would be if the claim were repeated without a new poll
ClaimReturned_ClaimsAgain ==
  /\ claimsOk' = Bump(claimsOk, idx)
  /\ pc' = IF claims[idx] < MaxPolls THEN "add_player" ELSE "window"
  /\ event' = "claim_ok"
  /\ UNCHANGED <<idx, status, now, t0, secs_until_3, rec, polls, claims, err>>

\* add_player returned: the try block of add_until_done ends without a
\* return and the while loop starts its next cycle at once
ClaimReturned ==
  /\ claimsOk' = Bump(claimsOk, idx)
  /\ pc' = "window"
  /\ event' = "claim_ok"
  /\ UNCHANGED <<idx, status, now, t0, secs_until_3, rec, polls, claims, err>>

\* ClaimRaised as it would be if a failed claim ended the run
ClaimRaised_GivesUp ==
  /\ status' = [status EXCEPT ![idx] = "taken"]
  /\ pc' = "returned"
  /\ event' = "claim_failed"
  /\ UNCHANGED <<idx, now, t0, secs_until_3, rec, polls, claims, claimsOk, err>>

\* ClaimRaised as it would be if the claim were tried again without a poll
ClaimRaised_ClaimsAgain ==
  /\ now' = After(now, FailedClaimPause)
  /\ pc' = IF claims[idx] < MaxPolls THEN "add_player" ELSE "window"
  /\ event' = "claim_failed"
  /\ UNCHANGED <<idx, status, t0, secs_until_3, rec, polls, claims, claimsOk, err>>

\* ClaimRaised as it would be without the except clause
ClaimRaised_Propagates ==
  /\ pc' = "raised"
  /\ err' = "claim"
  /\ event' = "raised"
  /\ UNCHANGED <<idx, status, now, t0, secs_until_3, rec, polls, claims, claimsOk>>

\* add_player raised: except Exception logs, sleeps and continues
ClaimRaised ==
  /\ now' = After(now, FailedClaimPause)
  /\ pc' = "window"
  /\ event' = "claim_failed"
  /\ UNCHANGED <<idx, status, t0, secs_until_3, rec, polls, claims, claimsOk, err>>

\* a method called directly hands its outcome to its caller
ApiDone ==
  /\ pc' = "idle"
  /\ event' = "call_done"
  /\ UNCHANGED <<schedVars, err>>

\* the wrapped call ends with outcome o: "ok", "error" (the exception of a
\* request), "unable to get new token" (the token endpoint answered, but not
\* with 200) or "renewal raised" (the refresh request itself raised)
Finish(o) ==
  /\ result' = o
  /\ IF mode = "api" THEN ApiDone
     ELSE IF o = "ok" THEN ClaimReturned
     ELSE ClaimRaised

\* ------------------------------------------------------- add_until_done

\* top of the while loop: compute the wait and sleep it
window ==
  /\ pc = "window"
  /\ polls[idx] < MaxPolls
  /\ t0' = now
  /\ secs_until_3' = SecsUntil3(now)
  /\ now' = After(now, SecsUntil3(now))
  /\ rec' = NoRecord
  /\ lastResp' = NoResponse
  /\ pc' = "poll"
  /\ event' = "checked"
  /\ UNCHANGED <<confVars, idx, status, polls, claims, claimsOk, tokenVars,
                 isPost, attempt, nReq, nRenew, firstErr, lastBearer, doc,
                 yielded, result, payload, err, calls>>

\* what the loop body does with the record r of this cycle's poll
Decide(r) ==
  /\ rec' = r
  /\ polls' = Bump(polls, idx)
  /\ CASE Branch(r) = "KeyError" ->
            /\ pc' = "raised" /\ err' = "KeyError" /\ event' = "raised"
            /\ UNCHANGED <<status, now>>
       [] Branch(r) = "waivers" ->
            /\ now' = After(now, WaiversPause)
            /\ pc' = "window" /\ event' = "waivers"
            /\ UNCHANGED <<status, err>>
       [] Branch(r) \in {"owned", "taken"} ->
            /\ status' = [status EXCEPT ![idx] = Branch(r)]
            /\ pc' = "returned" /\ event' = "returned"
            /\ UNCHANGED <<now, err>>
       [] Branch(r) = "freeagents" ->
            /\ pc' = "add_player" /\ event' = "free"
            /\ UNCHANGED <<status, now, err>>
  /\ UNCHANGED <<confVars, idx, t0, secs_until_3, claims, claimsOk, tokenVars,
                 callVars, payload, calls>>

\* next(caller.player_id(...)) on an object of class YahooApi, which defines
\* player_info, add_player and make_request but no player_id
poll_no_attribute ==
  /\ pc = "poll"
  /\ ~hasPlayerId
  /\ pc' = "raised" /\ err' = "AttributeError" /\ event' = "raised"
  /\ UNCHANGED <<confVars, schedVars, tokenVars, callVars, payload, calls>>

\* poll_raises as it would be if a failed read were handled like a failed
\* claim
poll_raises_Retried ==
  /\ pc = "poll"
  /\ hasPlayerId
  /\ polls' = Bump(polls, idx)
  /\ now' = After(now, FailedClaimPause)
  /\ pc' = "window" /\ err' = "read" /\ event' = "raised"
  /\ UNCHANGED <<confVars, idx, status, t0, secs_until_3, rec, claims,
                 claimsOk, tokenVars, callVars, payload, calls>>

\* the caller has player_id and the read behind it raises: nothing in
\* add_until_done or __main__ catches it
poll_raises ==
  /\ pc = "poll"
  /\ hasPlayerId
  /\ polls' = Bump(polls, idx)
  /\ pc' = "raised" /\ err' = "read" /\ event' = "raised"
  /\ UNCHANGED <<confVars, idx, status, now, t0, secs_until_3, rec, claims,
                 claimsOk, tokenVars, callVars, payload, calls>>

\* the caller has player_id and its first result carries record r
poll_record ==
  /\ pc = "poll"
  /\ hasPlayerId
  /\ \E r \in OwnershipRecords : Decide(r)

\* caller.add_player(...): build the payload and call make_request(True, ...)
add_player ==
  /\ pc = "add_player"
  /\ payload' = Payload(drop)
  /\ claims' = Bump(claims, idx)
  /\ isPost' = TRUE
  /\ attempt' = 1 /\ nReq' = 0 /\ nRenew' = 0 /\ firstErr' = "none"
  /\ result' = "pending"
  /\ pc' = "request" /\ event' = "add_player"
  /\ UNCHANGED <<confVars, idx, status, now, t0, secs_until_3, rec, polls,
                 claimsOk, tokenVars, lastBearer, lastResp, doc, yielded, err,
                 calls>>

\* ------------------------------------- make_request under with_authorization

\* what one invocation of make_request does with the answer resp:
\* "return", or "raise" with the text of the exception classified
MakeRequest(is_post, resp) ==
  IF resp.kind = "exception"
    THEN [does |-> "raise", expired |-> resp.expired]
  ELSE IF ~is_post
    THEN [does |-> "raise", expired |-> FALSE]     \* resp is unbound
  ELSE IF IsFailure(resp.status)
    THEN [does |-> "raise", expired |-> resp.expired]
  ELSE [does |-> "return", expired |-> FALSE]

\* Renews as it would be if the retry were wrapped like the first invocation
Renews_EveryInvocation(n, e) == TokenExpired(e)

\* whether the wrapper answers exception e of invocation n with a renewal
Renews(n, e) == n = 1 /\ TokenExpired(e)

\* the tuples player_info yields from the decoded player entries
PlayerInfo(player_obj) ==
  IF player_obj.isList
    THEN [i \in 1..Len(player_obj.players) |->
            <<player_obj.players[i].player_key, player_obj.players[i].full,
              player_obj.players[i]>>]
    ELSE << <<player_obj.players[1].player_key, player_obj.players[1].full,
              player_obj.players[1]>> >>

\* the bodies an answer to this request can carry
Bodies(is_post, resp) ==
  IF ~is_post /\ resp.kind = "http" /\ ~IsFailure(resp.status)
    THEN PlayerObjs ELSE {NoDoc}

request ==
  /\ pc = "request"
  /\ nReq' = nReq + 1
  /\ lastBearer' = access
  /\ \E resp \in Responses : \E d \in Bodies(isPost, resp) :
       LET o == MakeRequest(isPost, resp) IN
         /\ lastResp' = resp
         /\ doc' = d
         /\ firstErr' = IF attempt = 1 /\ o.does = "raise"
                          THEN (IF o.expired THEN "expired" ELSE "other")
                          ELSE firstErr
         /\ yielded' = IF o.does = "return" /\ ~isPost
                         THEN PlayerInfo(d) ELSE yielded
         /\ IF o.does = "return"
              THEN Finish("ok")
            ELSE IF Renews(attempt, o)
              THEN /\ pc' = "renew" /\ event' = "expired"
                   /\ UNCHANGED <<schedVars, err, result>>
            ELSE Finish("error")
  /\ UNCHANGED <<confVars, tokenVars, isPost, attempt, nRenew, payload, calls>>

\* renew as it would be if the answer were written out before its status
\* is looked at
renew_PersistsAnyAnswer ==
  /\ pc = "renew"
  /\ nRenew' = nRenew + 1
  /\ \E rr \in RenewResponses :
       IF rr.kind = "exception"
         THEN /\ Finish("renewal raised")
              /\ UNCHANGED tokenFile
       ELSE IF rr.status # RenewOkStatus
         THEN /\ Finish("unable to get new token")
              /\ tokenFile' = [access_token |-> rr.access_token,
                               refresh_token |-> rr.refresh_token]
         ELSE /\ tokenFile' = [access_token |-> rr.access_token,
                               refresh_token |-> rr.refresh_token]
              /\ pc' = "persisted" /\ event' = "persisted"
              /\ UNCHANGED <<schedVars, err, result>>
  /\ UNCHANGED <<confVars, access, refresh, isPost, attempt, nReq, firstErr,
                 lastBearer, lastResp, doc, yielded, payload, calls>>

\* the except branch of with_authorization up to the write of token.private:
\* ask for a new token and persist the answer
renew ==
  /\ pc = "renew"
  /\ nRenew' = nRenew + 1
  /\ \E rr \in RenewResponses :
       IF rr.kind = "exception"
         THEN /\ Finish("renewal raised")
              /\ UNCHANGED tokenFile
       ELSE IF rr.status # RenewOkStatus
         THEN /\ Finish("unable to get new token")
              /\ UNCHANGED tokenFile
         ELSE /\ tokenFile' = [access_token |-> rr.access_token,
                               refresh_token |-> rr.refresh_token]
              /\ pc' = "persisted" /\ event' = "persisted"
              /\ UNCHANGED <<schedVars, err, result>>
  /\ UNCHANGED <<confVars, access, refresh, isPost, attempt, nReq, firstErr,
                 lastBearer, lastResp, doc, yielded, payload, calls>>

\* assign as it would be if the new refresh token were taken over too
assign_TakesRefreshToken ==
  /\ pc = "persisted"
  /\ access' = tokenFile.access_token
  /\ refresh' = tokenFile.refresh_token
  /\ attempt' = 2
  /\ pc' = "request" /\ event' = "renewed"
  /\ UNCHANGED <<confVars, schedVars, tokenFile, isPost, nReq, nRenew,
                 firstErr, lastBearer, lastResp, doc, yielded, payload, result,
                 err, calls>>

\* self.access = resp_json['access_token'], then the second invocation
assign ==
  /\ pc = "persisted"
  /\ access' = tokenFile.access_token
  /\ attempt' = 2
  /\ pc' = "request" /\ event' = "renewed"
  /\ UNCHANGED <<confVars, schedVars, refresh, tokenFile, isPost, nReq, nRenew,
                 firstErr, lastBearer, lastResp, doc, yielded, payload, result,
                 err, calls>>

\* ------------------------------------------------------------- __main__

\* main_loop as it would be without the break
main_loop_NoBreak ==
  /\ pc = "returned"
  /\ IF idx < NumCandidates THEN pc' = "window" /\ idx' = idx + 1
     ELSE pc' = "end" /\ idx' = idx
  /\ event' = "main_loop"
  /\ rec' = NoRecord
  /\ UNCHANGED <<confVars, status, now, t0, secs_until_3, polls, claims,
                 claimsOk, tokenVars, callVars, payload, err, calls>>

\* for player_add in adds: ... if status == 'owned': break
main_loop ==
  /\ pc = "returned"
  /\ IF status[idx] = "owned" THEN pc' = "end" /\ idx' = idx
     ELSE IF idx < NumCandidates THEN pc' = "window" /\ idx' = idx + 1
     ELSE pc' = "end" /\ idx' = idx
  /\ event' = "main_loop"
  /\ rec' = NoRecord
  /\ UNCHANGED <<confVars, status, now, t0, secs_until_3, polls, claims,
                 claimsOk, tokenVars, callVars, payload, err, calls>>

Next ==
  \/ window
  \/ poll_no_attribute
  \/ poll_raises
  \/ poll_record
  \/ add_player
  \/ request
  \/ renew
  \/ assign
  \/ main_loop

Spec == Init /\ [][Next]_vars

\* the loop of add_until_done up to the poll, from any reading of the clock
NextWait == window

SpecWait == InitWait /\ [][NextWait]_vars

\* ------------------------------------------- YahooApi called directly

\* player_info(...) up to its call make_request(False, url)
api_player_info ==
  /\ pc = "idle"
  /\ calls < MaxCalls
  /\ calls' = calls + 1
  /\ isPost' = FALSE
  /\ attempt' = 1 /\ nReq' = 0 /\ nRenew' = 0 /\ firstErr' = "none"
  /\ result' = "pending"
  /\ pc' = "request" /\ event' = "player_info"
  /\ yielded' = <<>>
  /\ UNCHANGED <<confVars, schedVars, tokenVars, lastBearer, lastResp, doc,
                 payload, err>>

\* add_player(...) up to its call make_request(True, url, payload)
api_add_player ==
  /\ pc = "idle"
  /\ calls < MaxCalls
  /\ calls' = calls + 1
  /\ payload' = Payload(drop)
  /\ isPost' = TRUE
  /\ attempt' = 1 /\ nReq' = 0 /\ nRenew' = 0 /\ firstErr' = "none"
  /\ result' = "pending"
  /\ pc' = "request" /\ event' = "add_player"
  /\ UNCHANGED <<confVars, schedVars, tokenVars, lastBearer, lastResp, doc,
                 yielded, err>>

NextApi ==
  \/ api_player_info
  \/ api_add_player
  \/ request
  \/ renew
  \/ assign

SpecApi == InitApi /\ [][NextApi]_vars

\* ======================================================================
\* Claims
\* ======================================================================

Candidates == 1..NumCandidates

C4_RejectedRenewalIsFatal ==
  [][(pc = "renew" /\ result' = "unable to get new token") => pc' = "raised"]_vars

\* C5: a poll whose record has ownership_type team makes add_until_done
\* return in that cycle with no claim write, 'owned' if owner_team_key equals
\* team_id and 'taken' otherwise.
C5_TeamRecordReturns ==
  [][(pc = "poll" /\ rec'.ownership_type = "team") =>
        /\ pc' = "returned"
        /\ claims' = claims
        /\ now' = now
        /\ status'[idx] = IF rec'.owner_team_key = team_id THEN "owned" ELSE "taken"
        /\ \A i \in Candidates \ {idx} : status'[i] = status[i]
    ]_vars

\* add_until_done returned 'taken' on a record of another team, no claim made
C5_Witness ==
  /\ pc = "returned" /\ status[idx] = "taken"
  /\ rec.ownership_type = "team" /\ rec.owner_team_key = "t2"
  /\ claims[idx] = 0

\* C6: the candidates are worked in list order, one at a time: the loop moves
\* to candidate i+1 only when add_until_done returned 'taken' for candidate i,
\* only the candidate in flight is polled or claimed, everyone before it has
\* returned 'taken', and after an 'owned' nothing is polled or claimed.
C6_InOrderOneInFlight ==
  [][ /\ idx' # idx =>
           /\ idx' = idx + 1 /\ pc = "returned" /\ status[idx] = "taken"
      /\ \A i \in Candidates :
           (polls'[i] # polls[i] \/ claims'[i] # claims[i]) =>
               /\ i = idx
               /\ \A j \in 1..(i - 1) : status[j] = "taken"
               /\ \A j \in Candidates : status[j] # "owned"
      /\ (\E j \in Candidates : status[j] = "owned") => pc' \in {"returned", "end"}
    ]_vars

\* the second candidate is being polled after the first was taken
C6_Witness ==
  /\ idx = 2 /\ polls[2] > 0 /\ status[1] = "taken"

\* C7 as stated: for every reading of the clock, the wait computed at the
\* top of the cycle is non-zero exactly when the reading is outside
\* [02:59:30, 07:00:00).
C7_WaitIffOutsideWindow ==
  pc = "poll" => ((secs_until_3 # 0) <=> ~(three_am <= t0 /\ t0 < seven_am))

\* C8 as stated: a record without ownership_type, or with one other than
\* waivers and team, sends the scheduler on to the claim write.
C8_OtherwiseFreeAgent ==
  [][(pc = "poll" /\ rec' \in OwnershipRecords
        /\ rec'.ownership_type \notin {"waivers", "team"}) =>
        pc' = "add_player"]_vars

\* C9: whenever add_player raises, add_until_done neither returns nor lets
\* the exception out: it sleeps 1 second and is back at the window check,
\* from where its next step is a new poll.
C9_FailedClaimRecovered ==
  [][ /\ (pc \in {"request", "renew"} /\ result' \notin {"pending", "ok"}) =>
           /\ pc' = "window"
           /\ now' = After(now, 1)
           /\ status' = status /\ idx' = idx /\ err' = "none"
      /\ (event = "claim_failed" /\ pc' # pc) => pc' = "poll" /\ t0' = now
    ]_vars

\* a claim write failed and the scheduler is back at the top of its loop
C9_Witness ==
  /\ event = "claim_failed" /\ pc = "window" /\ result = "error"
  /\ claims[idx] = 1 /\ claimsOk[idx] = 0

\* C10: a poll whose record has ownership_type waivers, whatever else it
\* holds, issues no claim write and does not return: the scheduler sleeps 10
\* seconds and is back at the window check, which precedes the next poll.
C10_WaiversPauses ==
  [][ /\ (pc = "poll" /\ rec'.ownership_type = "waivers") =>
           /\ pc' = "window"
           /\ now' = After(now, 10)
           /\ claims' = claims /\ status' = status /\ idx' = idx
      /\ (event = "waivers" /\ pc' # pc) => pc' = "poll" /\ t0' = now
    ]_vars

\* a waivers record that names our own team as owner was seen and waited on
C10_Witness ==
  /\ event = "waivers" /\ pc = "window"
  /\ rec.ownership_type = "waivers" /\ rec.owner_team_key = team_id

\* a 2xx answer, and an answer that reports the access token as expired
Is2xx(resp) == resp.kind = "http" /\ ~IsFailure(resp.status)
IsAuthExpired(resp) ==
  resp.kind = "http" /\ IsFailure(resp.status) /\ resp.expired

\* C11 as stated: an ownership read whose first answer reports the token as
\* expired is followed by a renewal, the retry carries the renewed access
\* token, and a retry answered with 2xx succeeds.
C11_ReadRenewsAndRetries ==
  [][ /\ (pc = "request" /\ ~isPost /\ attempt = 1 /\ IsAuthExpired(lastResp')) =>
           pc' = "renew"
      /\ (pc = "request" /\ ~isPost /\ attempt = 2) =>
           lastBearer' = tokenFile.access_token
      /\ (pc = "request" /\ ~isPost /\ attempt = 2 /\ Is2xx(lastResp')) =>
           result' = "ok"
    ]_vars

\* C12 as stated: for GET as for POST, make_request returns on a 2xx answer
\* and raises an exception with the body of the answer on any other.
C12_SameForReadAndWrite ==
  [][ /\ (pc = "request" /\ Is2xx(lastResp')) => result' = "ok"
      /\ (pc = "request" /\ attempt = 1 /\ lastResp'.kind = "http"
            /\ IsFailure(lastResp'.status)) =>
           firstErr' = IF lastResp'.expired THEN "expired" ELSE "other"
    ]_vars

\* C13: the refresh token of the client never changes; the access token
\* changes only in the step that follows an accepted renewal, to the token
\* of that answer; a call that ends without a renewal leaves both as they are.
C13_TokensChangeOnlyByRenewal ==
  [][ /\ refresh' = refresh
      /\ access' # access =>
           /\ pc = "persisted" /\ event = "persisted"
           /\ access' = tokenFile.access_token
      /\ (pc \in {"request", "renew"} /\ pc' = "idle") =>
           access' = access /\ refresh' = refresh
    ]_vars

\* a renewal replaced the access token and its answer held another refresh
\* token than the client's
C13_Witness ==
  /\ pc = "idle" /\ access = 2 /\ refresh = 0
  /\ tokenFile.refresh_token = 1 /\ nRenew = 1

\* C14 as stated: player_info yields one result per player entry of the
\* answer, in order, the single entry standing for a list of one.
C14_OneResultPerEntry ==
  [][(pc = "request" /\ ~isPost /\ Is2xx(lastResp')) =>
        /\ Len(yielded') = Len(doc'.players)
        /\ \A i \in 1..Len(doc'.players) :
             yielded'[i] = <<doc'.players[i].player_key, doc'.players[i].full,
                             doc'.players[i]>>
    ]_vars

\* C20: whenever no renewal is half done, self.access is the access_token of
\* token.private; an accepted renewal writes the file first and sets
\* self.access from it in the next step; a rejected renewal changes neither.
C20_FileAndMemoryAgree ==
  /\ [](pc # "persisted" => access = tokenFile.access_token)
  /\ [][ /\ tokenFile' # tokenFile =>
              /\ pc = "renew" /\ pc' = "persisted" /\ access' = access
         /\ access' # access =>
              /\ tokenFile' = tokenFile /\ access' = tokenFile.access_token
         /\ (pc = "renew" /\ pc' # "persisted") =>
              /\ tokenFile' = tokenFile /\ access' = access
       ]_vars

\* the retry after an accepted renewal is about to go out with the new token
C20_Witness ==
  /\ pc = "request" /\ attempt = 2
  /\ access = 2 /\ tokenFile.access_token = 2

\* C15 as stated: every ownership poll is issued at a local time inside
\* [02:59:30, 07:00:00).
C15_PollsInsideWindow ==
  [][polls' # polls => (three_am <= now /\ now < seven_am)]_vars

\* C16: add_until_done returns only in a cycle whose poll saw ownership_type
\* team, and then 'owned' or 'taken'; a waivers record, a failed claim and a
\* successful claim all lead back to the top of the loop with nothing
\* returned, however many cycles have gone before.
C16_ReturnsOnlyOnTeam ==
  [][ /\ status' # status =>
           /\ pc = "poll" /\ pc' = "returned"
           /\ rec'.ownership_type = "team"
           /\ status'[idx] \in {"owned", "taken"}
           /\ \A i \in Candidates \ {idx} : status'[i] = status[i]
      /\ (pc' = "returned" /\ pc # "returned") =>
           rec'.ownership_type = "team" /\ status[idx] = "none"
      /\ event' \in {"waivers", "claim_failed", "claim_ok"} =>
           pc' = "window" /\ status'[idx] = "none"
    ]_vars

\* as many cycles as the model follows have all ended on waivers, and the
\* scheduler is at the top of its loop again
C16_Witness ==
  /\ polls[idx] = MaxPolls /\ claims[idx] = 0
  /\ event = "waivers" /\ pc = "window" /\ status[idx] = "none"

\* C17: at a whole-second reading s outside (02:59:30, 07:00:00) the wait is
\* the number of seconds from s to the next 02:59:30, which lies in 0..86399
\* and is 0 at 02:59:30 itself, and the sleep ends at 02:59:30; at a
\* whole-second reading inside the interval the wait is 0.
C17_WaitIsExact ==
  (pc = "poll" /\ t0 % TicksPerSec = 0) =>
     LET s == t0 \div TicksPerSec IN
       IF 10770 < s /\ s < 25200
         THEN secs_until_3 = 0 /\ now = t0
         ELSE /\ secs_until_3 = (IF s <= 10770 THEN 10770 - s
                                               ELSE 10770 + 86400 - s)
              /\ secs_until_3 \in 0..86399
              /\ (s = 10770 => secs_until_3 = 0)
              /\ now = 10770 * TicksPerSec

\* the wait computed at 07:00:00 sharp
C17_Witness ==
  /\ pc = "poll" /\ t0 = 25200 * TicksPerSec /\ secs_until_3 = 71970

\* C18: an add_player call is made only in a cycle whose own poll, of the
\* candidate in flight, gave a record that is neither waivers nor team, so
\* the candidate has been polled more often than claimed before each claim,
\* after a failed claim as after a successful one.
C18_ClaimFollowsFreePoll ==
  /\ [](\A i \in Candidates : claims[i] <= polls[i])
  /\ [][\A i \in Candidates :
          claims'[i] > claims[i] =>
              /\ i = idx /\ pc = "add_player"
              /\ rec \in OwnershipRecords
              /\ rec.ownership_type \notin {"waivers", "team"}
              /\ polls[i] > claims[i]
       ]_vars

\* a second claim goes out after the first one failed and a new poll was made
C18_Witness ==
  /\ pc = "request" /\ claims[idx] = 2 /\ claimsOk[idx] = 0 /\ polls[idx] = 2

\* C19: an ownership read that raises is not retried: the exception leaves
\* add_until_done and the campaign, and nothing is polled or claimed after
\* it, for this candidate or a later one.
C19_ReadFailureEndsCampaign ==
  [][ /\ (err' = "read" /\ err # "read") =>
           /\ pc = "poll" /\ pc' = "raised"
           /\ status' = status /\ idx' = idx /\ now' = now
      /\ err = "read" => (polls' = polls /\ claims' = claims /\ pc' = "raised")
    ]_vars

\* the read for the first candidate raised: the campaign is over and the
\* second candidate was never touched
C19_Witness ==
  /\ pc = "raised" /\ err = "read" /\ idx = 1
  /\ polls[2] = 0 /\ claims[2] = 0 /\ status[1] = "none"

====
